---- MODULE Spec2Model ----
(***************************************************************************)
(* Model of src/src/token_provider/token_provider.go: the AAD token        *)
(* provider (construction, the background refresh loop, the accessor) and  *)
(* the refresh-duration calculator.                                        *)
(*                                                                         *)
(* Time is counted in integer ticks of one millisecond (Go counts          *)
(* nanoseconds in an int64; the arithmetic is the same, the resolution is  *)
(* coarser).  Every call of time.Now() in the source is a separate clock   *)
(* reading: the readings of one computation are non-decreasing and at most *)
(* MaxDrift ticks apart from one to the next.                              *)
(*                                                                         *)
(* The provider's fields are shared between the loop's goroutine and the   *)
(* callers of GetAccessToken without any synchronisation.  Each load and   *)
(* each word of a store is a step of its own, in one global order.         *)
(***************************************************************************)
EXTENDS Integers, Sequences, FiniteSets, TLC

VARIABLES
    \* ---- the provider (Spec) ----
    pc,                 \* position of the thread that constructs / refreshes
    result,             \* what NewTokenProvider returned
    credCreated,        \* azidentity.NewDefaultAzureCredential succeeded
    created,            \* the tokenProvider struct has been allocated
    token,              \* tokenProvider.token
    lastError,          \* tokenProvider.lastError
    refreshDuration,    \* tokenProvider.refreshDuration
    userConfiguredDurationPercentage,
    accessToken,        \* local of refreshAADToken: the Credential Client's answer
    started,            \* number of goroutines started with `go`
    calls,              \* number of credentialClient.GetToken calls made
    answers,            \* history: number of GetToken calls that have returned
    fetched,            \* history: the tokens of all successful GetToken answers
    rpc, rtok, rerr,    \* GetAccessToken callers: position, token read, error read
    rstart,             \* history: pc and calls when the caller's call began
    lastFetched,        \* history: token of the last successful GetToken answer
    attemptErr,         \* history: error of the last GetToken answer (Nil on success)
    cycleEnds,          \* history: <<token, lastError>> after each cycle's last write
    args,               \* history: which arguments of NewTokenProvider were nil
    \* ---- the calculator on its own (SpecCalc) ----
    cpc, cExp, cPct, cN, cEarliest, cDuration

provVars == <<pc, result, credCreated, created, token, lastError, refreshDuration,
              userConfiguredDurationPercentage, accessToken, started, calls,
              rpc, rtok, rerr, rstart, lastFetched, attemptErr, cycleEnds, args,
              answers, fetched>>
calcVars == <<cpc, cExp, cPct, cN, cEarliest, cDuration>>
vars == <<provVars, calcVars>>

----------------------------------------------------------------------------
\* Durations, in ticks.
Second == 1000
Minute == 60 * Second
TIME_1_MINUTES == 1 * Minute
TIME_5_MINUTES == 5 * Minute

\* Bounds of the model.
MaxDrift == 1       \* ticks between two consecutive clock readings
MaxCalls == 3       \* Credential Client calls per provider

Nil == "nil"

\* Go's integer division truncates toward zero (b > 0).
TruncDiv(a, b) == IF a >= 0 THEN a \div b ELSE -((-a) \div b)

\* uint8 subtraction 100 - p wraps modulo 2^8.
Uint8Sub(a, b) == (a - b) % 256

----------------------------------------------------------------------------
\* Mutant: the configured percentage itself, not its complement, scales the
\* remaining lifetime.
userConfiguredTimeFromNow_usesPercentage(ExpiresOn, pct, n1, n2) ==
    n1 + TruncDiv(pct * (ExpiresOn - n2), 100)

\* getRefreshDuration: n1, n2 are the two readings of line 142 (left to
\* right), n3 the reading of line 144, n4 the reading of line 149 / 154.
userConfiguredTimeFromNow(ExpiresOn, pct, n1, n2) ==
    n1 + TruncDiv(Uint8Sub(100, pct) * (ExpiresOn - n2), 100)

thresholdTimestamp(n3) == n3 - 10 * Second

\* Mutant: a candidate equal to the expiry is accepted (not-after instead of before).
getRefreshDuration_notAfter(ExpiresOn, pct, n1, n2, n3, n4) ==
    LET candidate == userConfiguredTimeFromNow(ExpiresOn, pct, n1, n2)
    IN  IF candidate < thresholdTimestamp(n3)
        THEN n4 + TIME_1_MINUTES
        ELSE IF candidate <= ExpiresOn
             THEN candidate
             ELSE n4 + TIME_1_MINUTES

getRefreshDuration(ExpiresOn, pct, n1, n2, n3, n4) ==
    LET tokenExpiryTimestamp == ExpiresOn
        candidate == userConfiguredTimeFromNow(ExpiresOn, pct, n1, n2)
    IN  IF candidate < thresholdTimestamp(n3)
        THEN n4 + TIME_1_MINUTES
        ELSE IF candidate < tokenExpiryTimestamp
             THEN candidate
             ELSE n4 + TIME_1_MINUTES

\* updateRefreshDuration: n5 is the reading of line 136.
updateRefreshDuration(ExpiresOn, pct, n1, n2, n3, n4, n5) ==
    getRefreshDuration(ExpiresOn, pct, n1, n2, n3, n4) - n5

\* Five successive readings of a clock that starts at t.
Readings(t) ==
    { <<t, t + d[1], t + d[1] + d[2], t + d[1] + d[2] + d[3],
        t + d[1] + d[2] + d[3] + d[4]>> : d \in [1..4 -> 0..MaxDrift] }

----------------------------------------------------------------------------
\* The provider before NewTokenProvider is called.
ZeroAccessToken == [Token |-> "", ExpiresOn |-> 0]
Readers == {"r1"}
Tokens  == {"tokA", "tokB"}
Errors  == {"errX", "errY"}
StartClock == 86400 * Second

ProvIdle ==
    /\ pc = "start"
    /\ result = "none"
    /\ credCreated = FALSE
    /\ created = FALSE
    /\ token = ""
    /\ lastError = Nil
    /\ refreshDuration = 0
    /\ userConfiguredDurationPercentage = 0
    /\ accessToken = ZeroAccessToken
    /\ started = 0
    /\ calls = 0
    /\ rpc = [r \in Readers |-> "idle"]
    /\ rtok = [r \in Readers |-> ""]
    /\ rerr = [r \in Readers |-> Nil]
    /\ rstart = [r \in Readers |-> [pc |-> "start", calls |-> 0]]
    /\ lastFetched = ""
    /\ attemptErr = Nil
    /\ cycleEnds = {}
    /\ args = [configNil |-> FALSE, loggerNil |-> FALSE]
    /\ answers = 0
    /\ fetched = {}

----------------------------------------------------------------------------
\* The calculator on its own: inputs drawn from bounded sets.
CalcPercentages == 0 .. 255
CalcExpOffsets ==
    { -20 * Second, -10 * Second - 1, -10 * Second, -5 * Second, -2, -1, 0, 1, 2, 150,
      5 * Second, 10 * Second, 10 * Second + 1, 100 * Minute }

CalcIdle ==
    /\ cpc = "idle"
    /\ cExp = 0
    /\ cPct = 0
    /\ cN = <<0, 0, 0, 0, 0>>
    /\ cEarliest = 0
    /\ cDuration = 0

CalcNows == {StartClock, StartClock + 12345}

InitCalc ==
    /\ ProvIdle
    /\ cpc = "in"
    /\ cPct \in CalcPercentages
    /\ \E now \in CalcNows :
          /\ cN \in Readings(now)
          /\ cExp \in { now + off : off \in CalcExpOffsets }
    /\ cEarliest = 0
    /\ cDuration = 0

\* One call of updateRefreshDuration (which calls getRefreshDuration).
CalcUpdateRefreshDuration ==
    /\ cpc = "in"
    /\ cpc' = "out"
    /\ cEarliest' = getRefreshDuration(cExp, cPct, cN[1], cN[2], cN[3], cN[4])
    /\ cDuration' = updateRefreshDuration(cExp, cPct, cN[1], cN[2], cN[3], cN[4], cN[5])
    /\ UNCHANGED <<cExp, cPct, cN, provVars>>

NextCalc == CalcUpdateRefreshDuration

SpecCalc == InitCalc /\ [][NextCalc]_vars

----------------------------------------------------------------------------
\* The provider.  Only differences of times reach the provider's state
\* (refreshDuration is a difference of two readings plus a difference to the
\* expiry), so every GetToken answer is placed at the same origin StartClock:
\* the expiry it carries and the readings that follow are counted from there.
Percentages == {0, 80, 100}
ExpOffsets == {5 * Second, 100 * Minute}

Init == ProvIdle /\ CalcIdle

\* Mutant: only the configuration is checked for nil.
RequiredArgumentNil_configOnly(configNil, loggerNil) == configNil

\* NewTokenProvider, line 31: config == nil || logger == nil.
RequiredArgumentNil(configNil, loggerNil) == configNil \/ loggerNil

\* NewTokenProvider, lines 30-52, up to the GetToken call of the initial
\* refreshAADToken (line 78), which blocks the constructing caller.
NewTokenProvider(configNil, loggerNil, pct, credOk) ==
    /\ pc = "start"
    /\ IF RequiredArgumentNil(configNil, loggerNil)
       THEN /\ result' = "ConfigError"
            /\ pc' = "returned"
            /\ UNCHANGED <<credCreated, created, token, lastError,
                           userConfiguredDurationPercentage, calls>>
       ELSE IF ~credOk
       THEN /\ result' = "CredentialError"
            /\ pc' = "returned"
            /\ UNCHANGED <<credCreated, created, token, lastError,
                           userConfiguredDurationPercentage, calls>>
       ELSE /\ credCreated' = TRUE
            /\ created' = TRUE
            /\ token' = ""
            /\ lastError' = Nil
            /\ userConfiguredDurationPercentage' = pct
            /\ calls' = calls + 1
            /\ pc' = "GetToken"
            /\ UNCHANGED result
    /\ args' = [configNil |-> configNil, loggerNil |-> loggerNil]
    /\ UNCHANGED <<refreshDuration, accessToken, started, rpc, rtok, rerr,
                   rstart, lastFetched, attemptErr, cycleEnds, answers, fetched, calcVars>>

\* A Go string and a Go interface value are two machine words each, and the
\* loop stores them without synchronisation: a store is two steps, and between
\* them the field holds one word of the old value and one of the new.  A load
\* that falls between the two steps sees that torn value; loads are single
\* steps (a load split in two would see the same three outcomes: old, torn, new).
TornToken == "torn-token"
TornError == "torn-error"
HalfStored(old, new, torn) == IF old = new THEN old ELSE torn

\* refreshAADToken, lines 78-87: GetToken answers with an error; the store to
\* lastError begins.
GetTokenFails(err) ==
    /\ pc = "GetToken"
    /\ answers' = answers + 1
    /\ accessToken' = ZeroAccessToken
    /\ attemptErr' = err
    /\ lastError' = HalfStored(lastError, err, TornError)
    /\ pc' = "storeLastError"
    /\ UNCHANGED <<result, credCreated, created, token, refreshDuration,
                   userConfiguredDurationPercentage, started, calls,
                   rpc, rtok, rerr, rstart, lastFetched, cycleEnds, args, fetched, calcVars>>

\* Mutant: a failed refresh also clears the stored token.
storeLastError_clearsToken ==
    /\ pc = "storeLastError"
    /\ lastError' = attemptErr
    /\ token' = ""
    /\ pc' = "refreshFailed"
    /\ cycleEnds' = cycleEnds \cup {<<token', lastError'>>}
    /\ UNCHANGED <<result, credCreated, created, refreshDuration,
                   userConfiguredDurationPercentage, accessToken, started, calls,
                   rpc, rtok, rerr, rstart, lastFetched, attemptErr, args, answers, fetched,
                   calcVars>>

\* Mutant: the failed refresh leaves lastError nil.
storeLastError_dropsError ==
    /\ pc = "storeLastError"
    /\ lastError' = Nil
    /\ pc' = "refreshFailed"
    /\ cycleEnds' = cycleEnds \cup {<<token, lastError'>>}
    /\ UNCHANGED <<result, credCreated, created, token, refreshDuration,
                   userConfiguredDurationPercentage, accessToken, started, calls,
                   rpc, rtok, rerr, rstart, lastFetched, attemptErr, args, answers, fetched,
                   calcVars>>

\* refreshAADToken, lines 87-89: the store to lastError completes (the failed
\* cycle's last write to the pair that GetAccessToken reads); err is returned.
storeLastError ==
    /\ pc = "storeLastError"
    /\ lastError' = attemptErr
    /\ pc' = "refreshFailed"
    /\ cycleEnds' = cycleEnds \cup {<<token, lastError'>>}
    /\ UNCHANGED <<result, credCreated, created, token, refreshDuration,
                   userConfiguredDurationPercentage, accessToken, started, calls,
                   rpc, rtok, rerr, rstart, lastFetched, attemptErr, args, answers, fetched,
                   calcVars>>

\* refreshAADToken, lines 78-93: GetToken answers with a token; the store of
\* nil to lastError begins.
GetTokenSucceeds(tok, off) ==
    /\ pc = "GetToken"
    /\ answers' = answers + 1
    /\ accessToken' = [Token |-> tok, ExpiresOn |-> StartClock + off]
    /\ lastFetched' = tok
    /\ fetched' = fetched \cup {tok}
    /\ attemptErr' = Nil
    /\ lastError' = HalfStored(lastError, Nil, TornError)
    /\ pc' = "resetLastError"
    /\ UNCHANGED <<result, credCreated, created, token, refreshDuration,
                   userConfiguredDurationPercentage, started, calls,
                   rpc, rtok, rerr, rstart, cycleEnds, args, calcVars>>

\* refreshAADToken, line 93: the store of nil to lastError completes.
resetLastError ==
    /\ pc = "resetLastError"
    /\ lastError' = Nil
    /\ pc' = "setToken"
    /\ UNCHANGED <<result, credCreated, created, token, refreshDuration,
                   userConfiguredDurationPercentage, accessToken, started, calls,
                   rpc, rtok, rerr, rstart, lastFetched, attemptErr, cycleEnds,
                   args, answers, fetched, calcVars>>

\* setToken, line 131 (called at line 98): the store to token begins.  The
\* atomic.Value of lines 129-130 is a local: it copies the string and
\* synchronises nothing.
setTokenBegins ==
    /\ pc = "setToken"
    /\ token' = HalfStored(token, accessToken.Token, TornToken)
    /\ pc' = "storeToken"
    /\ UNCHANGED <<result, credCreated, created, lastError, refreshDuration,
                   userConfiguredDurationPercentage, accessToken, started, calls,
                   rpc, rtok, rerr, rstart, lastFetched, attemptErr, cycleEnds,
                   args, answers, fetched, calcVars>>

\* Mutant: the token is stored only when none is held yet.
setToken_onlyFirst ==
    /\ pc = "storeToken"
    /\ token' = IF token = "" THEN accessToken.Token ELSE token
    /\ pc' = "updateRefreshDuration"
    /\ cycleEnds' = cycleEnds \cup {<<token', lastError>>}
    /\ UNCHANGED <<result, credCreated, created, lastError, refreshDuration,
                   userConfiguredDurationPercentage, accessToken, started, calls,
                   rpc, rtok, rerr, rstart, lastFetched, attemptErr,
                   args, answers, fetched, calcVars>>

\* setToken, lines 128-132: the store to token completes (the successful
\* cycle's last write to the pair that GetAccessToken reads).
setToken ==
    /\ pc = "storeToken"
    /\ token' = accessToken.Token
    /\ pc' = "updateRefreshDuration"
    /\ cycleEnds' = cycleEnds \cup {<<token', lastError>>}
    /\ UNCHANGED <<result, credCreated, created, lastError, refreshDuration,
                   userConfiguredDurationPercentage, accessToken, started, calls,
                   rpc, rtok, rerr, rstart, lastFetched, attemptErr,
                   args, answers, fetched, calcVars>>

\* Mutant: the loop returns after a successful refresh instead of waiting again.
RefreshDone_noRearm ==
    /\ pc = "updateRefreshDuration"
    /\ \E n \in Readings(StartClock) :
          refreshDuration' =
               updateRefreshDuration(accessToken.ExpiresOn,
                                     userConfiguredDurationPercentage,
                                     n[1], n[2], n[3], n[4], n[5])
    /\ pc' = IF started = 0 THEN "refreshed" ELSE "terminated"
    /\ UNCHANGED <<result, credCreated, created, token, lastError,
                   userConfiguredDurationPercentage, accessToken, started, calls,
                   rpc, rtok, rerr, rstart, lastFetched, attemptErr, cycleEnds,
                   args, answers, fetched, calcVars>>

\* updateRefreshDuration, lines 134-138 (called at line 99), and the return of
\* refreshAADToken to its caller: the constructor or the loop.
RefreshDone ==
    /\ pc = "updateRefreshDuration"
    /\ \E n \in Readings(StartClock) :
          refreshDuration' =
               updateRefreshDuration(accessToken.ExpiresOn,
                                     userConfiguredDurationPercentage,
                                     n[1], n[2], n[3], n[4], n[5])
    /\ pc' = IF started = 0 THEN "refreshed" ELSE "waiting"
    /\ UNCHANGED <<result, credCreated, created, token, lastError,
                   userConfiguredDurationPercentage, accessToken, started, calls,
                   rpc, rtok, rerr, rstart, lastFetched, attemptErr, cycleEnds,
                   args, answers, fetched, calcVars>>

\* Mutant: the loop is started although the initial refresh failed.
ConstructionFails_startsLoop ==
    /\ pc = "refreshFailed"
    /\ started = 0
    /\ started' = 1
    /\ result' = "InitialFetchError"
    /\ pc' = "waiting"
    /\ UNCHANGED <<credCreated, created, token, lastError, refreshDuration,
                   userConfiguredDurationPercentage, accessToken, calls,
                   rpc, rtok, rerr, rstart, lastFetched, attemptErr,
                   cycleEnds, args, answers, fetched, calcVars>>

\* NewTokenProvider, lines 53-55: the initial refresh failed.
ConstructionFails ==
    /\ pc = "refreshFailed"
    /\ started = 0
    /\ result' = "InitialFetchError"
    /\ pc' = "returned"
    /\ UNCHANGED <<credCreated, created, token, lastError, refreshDuration,
                   userConfiguredDurationPercentage, accessToken, started, calls,
                   rpc, rtok, rerr, rstart, lastFetched, attemptErr,
                   cycleEnds, args, answers, fetched, calcVars>>

\* NewTokenProvider, lines 57-58: start the loop, return the provider.
ConstructionSucceeds ==
    /\ pc = "refreshed"
    /\ started' = started + 1
    /\ result' = "provider"
    /\ pc' = "waiting"
    /\ UNCHANGED <<credCreated, created, token, lastError, refreshDuration,
                   userConfiguredDurationPercentage, accessToken, calls,
                   rpc, rtok, rerr, rstart, lastFetched, attemptErr, cycleEnds,
                   args, answers, fetched, calcVars>>

\* Mutant: the timer starts the next refresh without waiting for the previous
\* refreshAADToken to return.
TimerFires_async ==
    /\ started = 1
    /\ pc \in {"waiting", "GetToken"}
    /\ calls < MaxCalls
    /\ calls' = calls + 1
    /\ pc' = "GetToken"
    /\ UNCHANGED <<result, credCreated, created, token, lastError, refreshDuration,
                   userConfiguredDurationPercentage, accessToken, started,
                   rpc, rtok, rerr, rstart, lastFetched, attemptErr, cycleEnds,
                   args, answers, fetched, calcVars>>

\* periodicallyRefreshClientToken, lines 113-118: ctx is context.Background(),
\* whose Done channel never delivers, so only the timer case can be taken;
\* the timer fires once refreshDuration has elapsed (at once when it is <= 0)
\* and refreshAADToken calls GetToken.
TimerFires ==
    /\ pc = "waiting"
    /\ calls < MaxCalls
    /\ calls' = calls + 1
    /\ pc' = "GetToken"
    /\ UNCHANGED <<result, credCreated, created, token, lastError, refreshDuration,
                   userConfiguredDurationPercentage, accessToken, started,
                   rpc, rtok, rerr, rstart, lastFetched, attemptErr, cycleEnds,
                   args, answers, fetched, calcVars>>

\* Mutant: the loop retries after the fallback duration instead of returning.
LoopFails_retries ==
    /\ pc = "refreshFailed"
    /\ started = 1
    /\ refreshDuration' = TIME_5_MINUTES
    /\ pc' = "waiting"
    /\ UNCHANGED <<result, credCreated, created, token, lastError,
                   userConfiguredDurationPercentage, accessToken, started, calls,
                   rpc, rtok, rerr, rstart, lastFetched, attemptErr,
                   cycleEnds, args, answers, fetched, calcVars>>

\* periodicallyRefreshClientToken, lines 119-123: the refresh failed; the loop returns.
LoopFails ==
    /\ pc = "refreshFailed"
    /\ started = 1
    /\ refreshDuration' = TIME_5_MINUTES
    /\ pc' = "terminated"
    /\ UNCHANGED <<result, credCreated, created, token, lastError,
                   userConfiguredDurationPercentage, accessToken, started, calls,
                   rpc, rtok, rerr, rstart, lastFetched, attemptErr,
                   cycleEnds, args, answers, fetched, calcVars>>

\* GetAccessToken, line 62: the two fields are read one after the other,
\* without synchronisation with the loop's writes.
GetAccessTokenReadToken(r) ==
    /\ result = "provider"
    /\ rpc[r] \in {"idle", "returned"}
    /\ rtok' = [rtok EXCEPT ![r] = token]
    /\ rerr' = [rerr EXCEPT ![r] = Nil]
    /\ rpc' = [rpc EXCEPT ![r] = "readToken"]
    /\ rstart' = [rstart EXCEPT ![r] = [pc |-> pc, calls |-> calls]]
    /\ UNCHANGED <<pc, result, credCreated, created, token, lastError,
                   refreshDuration, userConfiguredDurationPercentage, accessToken,
                   started, calls, lastFetched, attemptErr, cycleEnds,
                   args, answers, fetched, calcVars>>

\* Mutant: reading the error consumes it.
GetAccessTokenReadError_clearsError(r) ==
    /\ rpc[r] = "readToken"
    /\ rerr' = [rerr EXCEPT ![r] = lastError]
    /\ lastError' = Nil
    /\ rpc' = [rpc EXCEPT ![r] = "returned"]
    /\ UNCHANGED <<pc, result, credCreated, created, token,
                   refreshDuration, userConfiguredDurationPercentage, accessToken,
                   started, calls, rtok, rstart, lastFetched, attemptErr,
                   cycleEnds, args, answers, fetched, calcVars>>

GetAccessTokenReadError(r) ==
    /\ rpc[r] = "readToken"
    /\ rerr' = [rerr EXCEPT ![r] = lastError]
    /\ rpc' = [rpc EXCEPT ![r] = "returned"]
    /\ UNCHANGED <<pc, result, credCreated, created, token, lastError,
                   refreshDuration, userConfiguredDurationPercentage, accessToken,
                   started, calls, rtok, rstart, lastFetched, attemptErr,
                   cycleEnds, args, answers, fetched, calcVars>>

Next ==
    \/ \E configNil \in BOOLEAN, loggerNil \in BOOLEAN, pct \in Percentages,
          credOk \in BOOLEAN : NewTokenProvider(configNil, loggerNil, pct, credOk)
    \/ \E err \in Errors : GetTokenFails(err)
    \/ \E tok \in Tokens, off \in ExpOffsets : GetTokenSucceeds(tok, off)
    \/ storeLastError
    \/ resetLastError
    \/ setTokenBegins
    \/ setToken
    \/ RefreshDone
    \/ ConstructionFails
    \/ ConstructionSucceeds
    \/ TimerFires
    \/ LoopFails
    \/ \E r \in Readers : GetAccessTokenReadToken(r)
    \/ \E r \in Readers : GetAccessTokenReadError(r)

Spec == Init /\ [][Next]_vars

\* The constructor and the loop without any caller of GetAccessToken.
NextLoop ==
    \/ \E configNil \in BOOLEAN, loggerNil \in BOOLEAN, pct \in Percentages,
          credOk \in BOOLEAN : NewTokenProvider(configNil, loggerNil, pct, credOk)
    \/ \E err \in Errors : GetTokenFails(err)
    \/ \E tok \in Tokens, off \in ExpOffsets : GetTokenSucceeds(tok, off)
    \/ storeLastError
    \/ resetLastError
    \/ setTokenBegins
    \/ setToken
    \/ RefreshDone
    \/ ConstructionFails
    \/ ConstructionSucceeds
    \/ TimerFires
    \/ LoopFails

\* The loop's goroutine is scheduled and its timer (time.After, line 117)
\* fires: every step of the loop that stays possible is eventually taken.
LoopFairness ==
    /\ WF_vars(TimerFires)
    /\ WF_vars(resetLastError)
    /\ WF_vars(setTokenBegins)
    /\ WF_vars(setToken)
    /\ WF_vars(RefreshDone)

\* The callers of GetAccessToken are left out of the fair specification: their
\* steps change nothing the loop reads (C12) and only multiply the states.
SpecFair == Init /\ [][NextLoop]_vars /\ LoopFairness

----------------------------------------------------------------------------
\* Claims about the provider (checked under Spec).

\* A GetAccessToken call of r has returned, and it began when the refreshing
\* thread was at one of the positions in S.
ReturnedFrom(r, S) == rpc[r] = "returned" /\ rstart[r].pc \in S

\* C1: once a background refresh attempt has failed, the stored token is still
\* the token of the last successful refresh and the stored error is the error
\* of the failed attempt, and every GetAccessToken call that begins after the
\* failure returns exactly that pair (no later refresh exists that could
\* clear the error).
C1_FailedRefreshKeepsToken ==
    (started = 1 /\ pc \in {"refreshFailed", "terminated"}) =>
        /\ attemptErr \in Errors
        /\ lastFetched \in Tokens
        /\ token = lastFetched
        /\ lastError = attemptErr
        /\ \A r \in Readers :
              ReturnedFrom(r, {"refreshFailed", "terminated"}) =>
                  (rtok[r] = lastFetched /\ rerr[r] = attemptErr)

C1_Witness ==
    /\ pc = "terminated"
    /\ calls = 3
    /\ \E r \in Readers : ReturnedFrom(r, {"terminated"}) /\ rerr[r] = "errY"

\* C2: a GetAccessToken call that begins after a refresh (initial or
\* background) has completed successfully and returns before the next refresh
\* begins returns the token of that Credential Client answer and a nil error.
C2_SuccessfulRefreshIsReturned ==
    \A r \in Readers :
        (ReturnedFrom(r, {"waiting"}) /\ rstart[r].calls = calls) =>
            (rtok[r] = lastFetched /\ rerr[r] = Nil /\ lastFetched \in Tokens)

C2_Witness ==
    /\ calls = 2
    /\ \E r \in Readers :
          /\ ReturnedFrom(r, {"waiting"})
          /\ rstart[r].calls = calls
          /\ rtok[r] = "tokB"

\* C3: every pair returned by GetAccessToken is the <<token, lastError>> that
\* held at the end of some single refresh cycle.
C3_AtomicSnapshot ==
    \A r \in Readers : rpc[r] = "returned" => <<rtok[r], rerr[r]>> \in cycleEnds

\* C4: a failed background refresh makes the loop store the error, set
\* refreshDuration to five minutes and terminate; once terminated, the loop
\* stays terminated, the Credential Client is not called again, token and
\* lastError never change, and a GetAccessToken call begun then returns them.
C4_FailureTerminatesLoop ==
    [][ /\ (started = 1 /\ pc = "refreshFailed" /\ pc' # pc) =>
              /\ pc' = "terminated"
              /\ refreshDuration' = TIME_5_MINUTES
              /\ lastError' = attemptErr /\ attemptErr \in Errors
              /\ token' = token /\ calls' = calls
        /\ pc = "terminated" =>
              /\ pc' = "terminated"
              /\ calls' = calls
              /\ token' = token /\ lastError' = lastError
              /\ refreshDuration' = refreshDuration
              /\ \A r \in Readers :
                    (rpc'[r] = "returned" /\ rstart'[r].pc = "terminated") =>
                        (rtok'[r] = token /\ rerr'[r] = lastError)
      ]_vars

C4_Witness ==
    /\ pc = "terminated"
    /\ calls < MaxCalls
    /\ refreshDuration = TIME_5_MINUTES
    /\ \E r \in Readers : ReturnedFrom(r, {"terminated"})

\* C5: when the initial synchronous fetch fails, NewTokenProvider returns an
\* error and no provider, starts no loop, and the Credential Client is not
\* called again for that instance.
C5_InitialFetchFailure ==
    [][ /\ (started = 0 /\ pc = "refreshFailed") =>
              /\ pc' = "returned"
              /\ result' = "InitialFetchError"
              /\ started' = 0
              /\ calls' = calls
        /\ result = "InitialFetchError" =>
              /\ result' = result
              /\ started' = 0
              /\ calls' = calls
      ]_vars

C5_Witness ==
    /\ result = "InitialFetchError"
    /\ pc = "returned"
    /\ calls = 1 /\ started = 0
    /\ lastError \in Errors

\* C6: NewTokenProvider called with a nil configuration or a nil logger
\* returns a configuration error; no Credential Client is created or called,
\* no tokenProvider is allocated and no loop is started.
C6_NilArgumentsRejected ==
    (pc # "start" /\ (args.configNil \/ args.loggerNil)) =>
        /\ pc = "returned"
        /\ result = "ConfigError"
        /\ ~credCreated
        /\ ~created
        /\ calls = 0
        /\ started = 0

C6_Witness ==
    /\ pc = "returned"
    /\ args.loggerNil /\ ~args.configNil
    /\ result = "ConfigError"

----------------------------------------------------------------------------
\* Claims about the calculator (checked under SpecCalc).  In the claims' words
\* nextRefresh(now, expiresAt, percentage) has one `now`; the code reads the
\* clock at cN[1] .. cN[4].  The candidate of the claims is written out here
\* from the claims' formula, with the readings the code uses in each place.
ClaimCandidate == cN[1] + TruncDiv((100 - cPct) * (cExp - cN[2]), 100)
ClaimThreshold == cN[3] - 10 * Second
ClaimFallback  == ClaimCandidate < ClaimThreshold \/ ClaimCandidate >= cExp
Configured     == cPct \in 0 .. 100
\* The token is unexpired at every reading of the computation.
Unexpired      == cExp > cN[5]

\* C7 as stated: for an unexpired token and a percentage in [0,100] the result
\* is strictly later than now, except in the fallback cases, which return
\* exactly now + 1 minute.
C7_Original ==
    (cpc = "out" /\ Configured /\ Unexpired) =>
        IF ClaimFallback
        THEN cEarliest = cN[4] + 1 * Minute
        ELSE cEarliest > cN[1]

\* C7 as amended: for an unexpired token and a percentage in [0,100] the
\* result is never earlier than now (it equals now when the truncated share of
\* the remaining lifetime is zero, as for percentage 100), except in the
\* fallback cases, which return exactly now + 1 minute.
C7_NeverBeforeNow ==
    (cpc = "out" /\ Configured /\ Unexpired) =>
        IF ClaimFallback
        THEN cEarliest = cN[4] + 1 * Minute
        ELSE cEarliest >= cN[1]

C7_Witness ==
    /\ cpc = "out" /\ Unexpired
    /\ cPct = 100
    /\ cExp = cN[1] + 100 * Minute
    /\ cEarliest = cN[1]

\* C8: if expiresAt - now <= 10 seconds, the result is now + 1 minute for
\* every percentage in [0,100].
C8_Original ==
    (cpc = "out" /\ Configured /\ cExp - cN[1] <= 10 * Second) =>
        cEarliest = cN[4] + 1 * Minute

C10_Original ==
    (cpc = "out" /\ cPct = 0 /\ Unexpired) => cEarliest = cN[4] + 1 * Minute

----------------------------------------------------------------------------
\* More claims about the provider (checked under Spec).

\* No refreshAADToken call is running: the thread that constructs / refreshes
\* is before the first call, between two calls or past the last one.
NoRefreshInFlight ==
    pc \in {"start", "returned", "refreshed", "waiting", "refreshFailed", "terminated"}

\* C11: whenever no refresh is in flight, lastError is non-nil exactly when
\* the most recent refresh attempt failed (and is then that attempt's error);
\* after a successful refresh lastError is nil.
C11_LastErrorTracksLastAttempt ==
    /\ NoRefreshInFlight =>
          /\ (lastError # Nil) <=> (attemptErr \in Errors)
          /\ lastError = attemptErr
    /\ pc \in {"refreshed", "waiting"} => (attemptErr = Nil /\ lastError = Nil)
    /\ pc \in {"refreshFailed", "terminated"} => attemptErr \in Errors

C11_Witness ==
    /\ pc = "terminated"
    /\ calls = 3
    /\ lastError = "errX"
    /\ token = "tokB"

\* The positions at which the constructor or the loop writes TokenState.
WriterPositions ==
    {"GetToken", "storeLastError", "resetLastError", "setToken", "storeToken",
     "updateRefreshDuration", "refreshFailed"}

\* C12: a step of GetAccessToken changes neither token, lastError nor
\* refreshDuration, makes no Credential Client call and moves neither the
\* constructor nor the loop; a call, once begun, can always take its next step
\* whatever the loop is doing; and token, lastError and refreshDuration change
\* only in steps of the initial refresh or of the loop.
C12_GetAccessTokenIsPureRead ==
    [][ /\ (rpc' # rpc) =>
              UNCHANGED <<token, lastError, refreshDuration, calls, pc, started,
                          accessToken, result>>
        /\ (token' # token \/ lastError' # lastError
                \/ refreshDuration' # refreshDuration) =>
              (rpc' = rpc /\ pc \in WriterPositions /\ pc' # pc)
        /\ \A r \in Readers :
              /\ rpc[r] = "readToken" => ENABLED GetAccessTokenReadError(r)
              /\ result = "provider" => (ENABLED GetAccessTokenReadToken(r)
                                            \/ ENABLED GetAccessTokenReadError(r))
      ]_vars

C12_Witness ==
    /\ pc = "GetToken"
    /\ calls = 2
    /\ \E r \in Readers : ReturnedFrom(r, {"GetToken"}) /\ rstart[r].calls = calls

\* The refresh durations that updateRefreshDuration can store for the answer
\* held in accessToken.
RecomputedDurations ==
    { updateRefreshDuration(accessToken.ExpiresOn, userConfiguredDurationPercentage,
                            n[1], n[2], n[3], n[4], n[5]) : n \in Readings(StartClock) }

\* C14: a successful background refresh ends with refreshDuration recomputed
\* from the expiry just received and with the loop waiting again; the loop
\* terminates only after a failed fetch; and, the timer being fair, a
\* successful answer or a wait is followed by the next Credential Client call
\* (up to the model's bound on the number of calls).
C14_LoopRearms ==
    /\ [][ (started = 1 /\ pc = "updateRefreshDuration" /\ pc' # pc) =>
              (pc' = "waiting" /\ refreshDuration' \in RecomputedDurations) ]_vars
    /\ [](pc = "terminated" => attemptErr \in Errors)
    /\ \A k \in 1 .. (MaxCalls - 1) :
          (started = 1 /\ pc \in {"resetLastError", "waiting"} /\ calls = k)
              ~> (calls = k + 1)

C14_Witness ==
    /\ started = 1
    /\ pc = "GetToken"
    /\ calls = 3
    /\ attemptErr = Nil
    /\ token = "tokB"
    /\ refreshDuration = 20 * Minute

\* Credential Client calls that have been made and have not returned yet.
InFlight == calls - answers

\* C15: at most one Credential Client call is in flight at any time; a loop
\* is started only after the initial refresh has returned, exactly one loop is
\* started for a provider that is returned and none otherwise; and a call is
\* made only when every earlier call has returned.
C15_OneCallInFlight ==
    [][ /\ InFlight \in {0, 1}
        /\ started \in {0, 1}
        /\ (result = "provider") <=> (started = 1)
        /\ started = 1 => (answers >= 1 /\ lastFetched \in Tokens)
        /\ started' # started => (InFlight = 0 /\ answers = 1 /\ started' = 1)
        /\ calls' # calls => (InFlight = 0 /\ calls' = calls + 1)
        /\ InFlight' \in {0, 1}
      ]_vars

C15_Witness ==
    /\ started = 1
    /\ calls = 3
    /\ answers = 2
    /\ pc = "GetToken"

\* C17: once NewTokenProvider has returned a provider, every GetAccessToken
\* call returns a token that some successful Credential Client call returned,
\* never the empty initial value.
C17_Original ==
    \A r \in Readers :
        rpc[r] = "returned" =>
            /\ rtok[r] \in fetched
            /\ rtok[r] # Nil

----------------------------------------------------------------------------
\* More claims about the calculator (checked under SpecCalc).

\* C16: for a token that is already expired (expiresAt <= now) the result is
\* now + 1 minute for every percentage in [0,100], and for any expiry and any
\* percentage in [0,100] the delay stored in refreshDuration is not negative.
C16_Original ==
    (cpc = "out" /\ Configured) =>
        /\ cExp <= cN[1] => cEarliest = cN[4] + 1 * Minute
        /\ cDuration >= 0

\* C18: for a percentage in 101..255 and an unexpired token the factor
\* 100 - percentage, computed modulo 2^8, lies in 101..255 and the result is
\* now + 1 minute.
C18_Original ==
    (cpc = "out" /\ cPct \in 101 .. 255 /\ Unexpired) =>
        /\ Uint8Sub(100, cPct) \in 101 .. 255
        /\ cEarliest = cN[4] + 1 * Minute

====
